---- MODULE Spec2Model ----
\* Shepherd (src/shepherd.js): the tag feed, its IntersectionObserver callback,
\* the runtime mutators and the asynchronous provider fallback loop, as a state
\* machine.  Tag indices are the 0-based data-idx values of the source.
EXTENDS Integers, Sequences, FiniteSets, TLC

\* ------------------------------------------------------------------ bounds
\* Operations in one behaviour that recompute the selection or change the
\* configuration without rendering the feed anew: calls of
\* handleVisibilityChange (each starts at most one resolution run), init calls
\* that throw after assigning, updateSpacing and throwing updateVisibleCount.
MaxOps == 2
\* Largest value passed as visibleTagCount / newCount (besides the default).
MaxCount == 1
\* Layout of the feed, in half-tag units: width of one tag and of the feed.
TagWidth == 2
FeedWidth == 4

\* --------------------------------------------------------- program constants
\* visibleTagCount: opts.visibleTagCount ?? 5
DefaultVisibleTagCount == 5
\* tagSpacingPx: opts.tagSpacingPx ?? 12
DefaultTagSpacingPx == 12

\* let config = null
NoConfig == [null |-> TRUE]

\* const providerList = ['carbon', 'facebook', 'google'];
providerList == <<"carbon", "facebook", "google">>

\* The tag lists handed to init (opts.tags); a tag is its keyword array.
TagSets ==
  { << <<"travel">>, << >>, <<"carbon offsets", "travel">> >>,
    << <<"Google Maps">> >> }

\* Values the caller passes as a visible count; init and updateVisibleCount
\* store them unvalidated.
CountInputs == {-1} \cup (0..MaxCount)

\* History variables describe the latest step only: the steps that are not
\* described by a field reset it.
NoRun == [gen |-> 0, keywords |-> << >>, log |-> << >>, kind |-> "none",
          provider |-> "none", html |-> "", old |-> FALSE, sel |-> {}]
NoCall == [op |-> "none", entries |-> << >>, count |-> 0, selection |-> << >>,
           again |-> FALSE, run |-> 0,
           before |-> [op |-> "none", selection |-> << >>, active |-> {}]]
NoInit == [outcome |-> "none", count |-> 0, reinit |-> FALSE, kept |-> TRUE]
Quiet(h) == [h EXCEPT !.done = NoRun, !.call = NoCall, !.init = NoInit]

VARIABLES
  config,     \* null | [visibleTagCount, tagSpacingPx, tags]
  feedEl,     \* "null" | id of the element held as the feed
  adSlotEl,   \* "null" | id of the element held as the ad slot
  feedTags,   \* number of .shepherd-tag elements in the feed (data-idx 0..n-1)
  active,     \* data-idx of the elements carrying class 'active'
  scroll,     \* scrollLeft of the feed element
  observer,   \* null | per observed idx: "new" | TRUE | FALSE (last reported)
  adSlot,     \* innerHTML of the document's ad slot element
  adapter,    \* the fetchAdFromProvider installed, see Adapters
  runs,       \* in-flight fetchAndRenderAd activations, by generation
  pending,    \* outstanding fetchAdFromProvider calls, in issue order
  hist        \* history (ghost) variables, see Init

vars == <<config, feedEl, adSlotEl, feedTags, active, scroll, observer, adSlot, adapter, runs,
          pending, hist>>

\* ------------------------------------------------------------ pure helpers
Max(a, b) == IF a >= b THEN a ELSE b
Min(a, b) == IF a <= b THEN a ELSE b

\* Array.prototype.slice(0, end) for an integer end.
Slice(s, end) ==
  LET k == IF end < 0 THEN Max(Len(s) + end, 0) ELSE Min(end, Len(s))
  IN  SubSeq(s, 1, k)

RECURSIVE Insert(_, _)
Insert(x, s) ==
  IF s = << >> THEN <<x>>
  ELSE IF x - Head(s) < 0 THEN <<x>> \o s
  ELSE <<Head(s)>> \o Insert(x, Tail(s))

\* visibleIdx.sort((a, b) => a - b)
RECURSIVE Sort(_)
Sort(s) == IF s = << >> THEN << >> ELSE Insert(Head(s), Sort(Tail(s)))

\* Array.prototype.flatMap over a sequence of sequences.
RECURSIVE Flatten(_)
Flatten(ss) == IF ss = << >> THEN << >> ELSE Head(ss) \o Flatten(Tail(ss))

Range(s) == {s[i] : i \in DOMAIN s}

\* ------------------------------------------------------------------ layout
\* Left and right edge of tag element idx relative to the feed's left edge;
\* the feed's own right edge is FeedWidth.
Left(idx, sl) == idx * TagWidth - sl
Right(idx, sl) == (idx + 1) * TagWidth - sl
Overlap(idx, sl) == Max(0, Min(Right(idx, sl), FeedWidth) - Max(Left(idx, sl), 0))

\* threshold: 0.5 -- a tag is visible when >= 50% of it is in view
Intersecting(idx, sl) == 2 * Overlap(idx, sl) >= TagWidth

MaxScroll(n) == Max(0, n * TagWidth - FeedWidth)

\* feedEl.querySelectorAll('.shepherd-tag'), in document order
TagElements(n) == [k \in 1..n |-> k - 1]

\* --------------------------------------------------- handleVisibilityChange
\* entries.forEach(entry => { if (entry.isIntersecting) visibleIdx.push(idx) })
visibleIdx(entries) ==
  LET hit == SelectSeq(entries, LAMBDA e : e.isIntersecting)
  IN  [k \in 1..Len(hit) |-> hit[k].idx]

\* visibleIdx.sort(...); visibleIdx.slice(0, config.visibleTagCount)
trimmed(entries, count) == Slice(Sort(visibleIdx(entries)), count)

\* Mutant: classList.toggle('active') without the force argument.
Highlight_flip(sel, n, old) ==
  {i \in 0..(n - 1) : (i \in old) # (i \in Range(sel))}

\* el.classList.toggle('active', trimmed.includes(idx)) for every tag element
Highlight(sel, n, old) == {i \in 0..(n - 1) : i \in Range(sel)}

\* Mutant: a pool that keeps only the first occurrence of a keyword.
RECURSIVE Unique(_)
Unique(s) ==
  IF s = << >> THEN << >>
  ELSE LET r == Unique(SubSeq(s, 1, Len(s) - 1))
       IN  IF s[Len(s)] \in Range(r) THEN r ELSE Append(r, s[Len(s)])

keywordPool_unique(sel, tags) ==
  Unique(Flatten([k \in 1..Len(sel) |-> tags[sel[k] + 1]]))

\* trimmed.flatMap(i => config.tags[i].keywords)
keywordPool(sel, tags) == Flatten([k \in 1..Len(sel) |-> tags[sel[k] + 1]])

\* config.tags[i] is undefined for some selected i: .keywords throws
MissingTag(sel, tags) == \E k \in 1..Len(sel) : sel[k] + 1 \notin DOMAIN tags

\* ------------------------------------------------------ fetchAdFromProvider
\* Provider names contained in k.toLowerCase(), for the keywords of TagSets.
Mentions(k) ==
  CASE k = "Google Maps" -> {"google"}
    [] k = "carbon offsets" -> {"carbon"}
    [] k = "Facebook groups" -> {"facebook"}
    [] OTHER -> {}

dummyAds == [carbon |-> "<a>Carbon Ad</a>",
             facebook |-> "<div>Facebook Audience Network placeholder</div>",
             google |-> "<div>Google AdSense placeholder</div>"]

Null == [kind |-> "null"]
Thrown == [kind |-> "throw"]
Ad(html) == [kind |-> "ad", html |-> html]

\* The shipped placeholder: a match when some keyword contains the provider name.
fetchAdFromProvider(provider, keywords) ==
  IF \E k \in Range(keywords) : provider \in Mentions(k)
  THEN Ad(dummyAds[provider])
  ELSE Null

\* The lookup installed in a behaviour: the placeholder above ("demo"), or a
\* replacement adapter ("stub": a real SDK / HTTP call) that, per provider,
\* resolves to null, to an object with or without markup, or rejects.
\* The stubs are fixed reply tables, one reply per provider.
Stub(c, f, g) == [kind |-> "stub", reply |-> [carbon |-> c, facebook |-> f, google |-> g]]
Adapters ==
  { [kind |-> "demo", reply |-> [carbon |-> Null, facebook |-> Null, google |-> Null]],
    Stub(Thrown, Ad(dummyAds.facebook), Ad(dummyAds.google)),
    Stub(Null, Ad(""), Thrown) }

\* What the awaited lookup of `provider` settles to.
Settlement(a, provider, keywords) ==
  IF a.kind = "demo"
  THEN fetchAdFromProvider(provider, keywords)
  ELSE a.reply[provider]

\* --------------------------------------------------------- fetchAndRenderAd
NoKeywordsMsg == "<p>No relevant ad (no keywords visible).</p>"
NoSuitableMsg == "<p>No suitable ad found for the current tags.</p>"

\* Mutant: the guard never fires.
EmptyPool_never(keywords) == FALSE

\* if (!keywords.length)
EmptyPool(keywords) == Len(keywords) = 0

\* Mutant: if (ad), any resolved object counts as a match.
IsMatch_anyMarkup(ad) == ad.kind = "ad"

\* if (ad && ad.html)
IsMatch(ad) == ad.kind = "ad" /\ ad.html # ""

\* Mutant: the list is walked from its end.
ProviderAt_reversed(i) == providerList[Len(providerList) + 1 - i]

\* Mutant: the loop stops one provider early.
HasNext_short(i) == i < Len(providerList) - 1

\* for (const provider of providerList): the i-th provider tried, and whether
\* the loop has another iteration after the i-th.
ProviderAt(i) == providerList[i]
HasNext(i) == i < Len(providerList)

\* Mutant: no try/catch around the awaited lookup.
LoopStep_noCatch(res) ==
  IF res.kind = "throw" THEN "reject"
  ELSE IF IsMatch(res) THEN "render"
  ELSE "continue"

\* One iteration's verdict on the settled lookup: the try block returns after
\* rendering a match, the catch block warns and falls through to the next.
LoopStep(res) ==
  IF res.kind = "throw" THEN "continue"
  ELSE IF IsMatch(res) THEN "render"
  ELSE "continue"

RemoveAt(s, k) == SubSeq(s, 1, k - 1) \o SubSeq(s, k + 1, Len(s))

\* The synchronous part of fetchAndRenderAd(keywords), up to its first await,
\* for the run of generation g.
fetchAndRenderAd(keywords, sel, g, h) ==
  LET fin(kind, html) ==
        [gen |-> g, keywords |-> keywords, log |-> << >>, kind |-> kind,
         provider |-> "none", html |-> html, old |-> FALSE, sel |-> Range(sel)]
  IN  IF EmptyPool(keywords) /\ adSlotEl = "null"
      \* adSlotEl.innerHTML = ... on null: the async function's promise rejects
      THEN /\ UNCHANGED <<adSlot, runs, pending>>
           /\ hist' = [h EXCEPT !.gen = g, !.last = g, !.call.run = g,
                         !.done = fin("rejected", "")]
      ELSE IF EmptyPool(keywords)
      THEN /\ adSlot' = NoKeywordsMsg
           /\ UNCHANGED <<runs, pending>>
           /\ hist' = [h EXCEPT !.gen = g, !.last = g, !.call.run = g,
                         !.sinkGen = g,
                         !.done = fin("empty-pool", NoKeywordsMsg)]
      ELSE /\ runs' = (g :> [keywords |-> keywords, i |-> 1, log |-> << >>,
                             sel |-> Range(sel), old |-> FALSE]) @@ runs
           /\ pending' = Append(pending, [run |-> g, provider |-> ProviderAt(1)])
           /\ UNCHANGED adSlot
           /\ hist' = [h EXCEPT !.gen = g, !.last = g, !.call.run = g]

\* handleVisibilityChange(entries) under configuration cfg; op names the caller.
handleVisibilityChange(entries, cfg, op) ==
  LET sel == trimmed(entries, cfg.visibleTagCount)
      h == [Quiet(hist) EXCEPT !.ops = hist.ops + 1, !.call =
              [op |-> op, entries |-> entries, count |-> cfg.visibleTagCount,
               selection |-> sel,
               again |-> /\ hist.call.op # "none"
                         /\ hist.call.entries = entries
                         /\ hist.call.count = cfg.visibleTagCount,
               run |-> 0,
               before |-> [op |-> hist.call.op,
                           selection |-> hist.call.selection,
                           active |-> active]]]
  IN  /\ hist.ops < MaxOps
      /\ IF feedEl = "null"
         \* feedEl.querySelectorAll on null throws
         THEN /\ UNCHANGED <<active, adSlot, runs, pending>>
              /\ hist' = [h EXCEPT !.gen = hist.gen + 1]
         ELSE /\ active' = Highlight(sel, feedTags, active)
              /\ IF MissingTag(sel, cfg.tags)
                 \* config.tags[i].keywords on a missing tag throws
                 THEN /\ UNCHANGED <<adSlot, runs, pending>>
                      /\ hist' = [h EXCEPT !.gen = hist.gen + 1]
                 ELSE fetchAndRenderAd(keywordPool(sel, cfg.tags), sel,
                                       hist.gen + 1, h)

\* The continuation of a run after one awaited lookup settles.
ProviderSettles ==
  \E k \in DOMAIN pending :
    /\ adapter.kind = "demo" => k = 1
    /\ LET c == pending[k]
           r == runs[c.run]
       IN    LET res == Settlement(adapter, c.provider, r.keywords)
                 log == Append(r.log, [provider |-> c.provider, res |-> res])
                 step == LoopStep(res)
                 rest == RemoveAt(pending, k)
                 fin(kind, html) ==
                   [gen |-> c.run, keywords |-> r.keywords, log |-> log,
                    kind |-> kind, provider |-> c.provider, html |-> html,
                    old |-> r.old, sel |-> r.sel]
                 others == [g \in DOMAIN runs \ {c.run} |-> runs[g]]
                 \* adSlotEl.innerHTML = ad.html on null throws inside the try
                 \* block: the catch block takes it for a provider failure
                 caught == step = "render" /\ adSlotEl = "null"
                 goesOn == (step = "continue" \/ caught) /\ HasNext(r.i)
             IN  CASE step = "render" /\ ~caught ->
                        /\ adSlot' = res.html
                        /\ runs' = others
                        /\ pending' = rest
                        /\ hist' = [Quiet(hist) EXCEPT !.sinkGen = c.run,
                                      !.done = fin("rendered", res.html)]
                   [] goesOn ->
                        /\ runs' = [runs EXCEPT ![c.run] =
                                      [r EXCEPT !.i = r.i + 1, !.log = log]]
                        /\ pending' = Append(rest, [run |-> c.run,
                                                    provider |-> ProviderAt(r.i + 1)])
                        /\ UNCHANGED adSlot
                        /\ hist' = Quiet(hist)
                   [] step = "continue" /\ ~HasNext(r.i) /\ adSlotEl # "null" ->
                        /\ adSlot' = NoSuitableMsg
                        /\ runs' = others
                        /\ pending' = rest
                        /\ hist' = [Quiet(hist) EXCEPT !.sinkGen = c.run,
                                      !.done = fin("no-match", NoSuitableMsg)]
                   [] OTHER ->
                        \* an error (a rethrown one, or the final write on a null
                        \* adSlotEl) escapes the async function: its promise rejects
                        /\ runs' = others
                        /\ pending' = rest
                        /\ UNCHANGED adSlot
                        /\ hist' = [Quiet(hist) EXCEPT !.done = fin("rejected", "")]
    /\ UNCHANGED <<config, feedEl, adSlotEl, feedTags, active, scroll, observer,
                   adapter>>

\* ------------------------------------------------------------- the tracker
\* The user scrolls the feed.
Scroll ==
  /\ hist.ops < MaxOps
  /\ \E sl \in 0..MaxScroll(feedTags) : sl # scroll /\ scroll' = sl
  /\ hist' = Quiet(hist)
  /\ UNCHANGED <<config, feedEl, adSlotEl, feedTags, active, observer, adSlot,
                 adapter, runs, pending>>

\* The IntersectionObserver reports, in target order, every observed tag whose
\* intersection state differs from the one it last reported.
ChangedEntries(obs, sl) ==
  LET now(i) == IF Intersecting(i, sl) THEN "in" ELSE "out"
      all == [k \in 1..Cardinality(DOMAIN obs) |->
                [idx |-> k - 1, isIntersecting |-> Intersecting(k - 1, sl)]]
  IN  SelectSeq(all, LAMBDA e : obs[e.idx] # now(e.idx))

IntersectionCallback ==
  LET entries == ChangedEntries(observer, scroll)
  IN  /\ entries # << >>
      /\ observer' = [i \in DOMAIN observer |->
                        IF Intersecting(i, scroll) THEN "in" ELSE "out"]
      /\ handleVisibilityChange(entries, config, "observer")
      /\ UNCHANGED <<config, feedEl, adSlotEl, feedTags, scroll, adapter>>

\* --------------------------------------------------------------- public API
\* document.getElementById: the page holds one feed and one ad slot element.
getElementById(id) == IF id \in {"tag-feed", "ad-slot"} THEN id ELSE "null"

\* The option objects passed to init: complete ones with and without a visible
\* count, ones whose feed or ad slot id names no element, and one without tags.
InitOptions ==
  [tags : TagSets, feedElementId : {"tag-feed"}, adSlotId : {"ad-slot"}]
  \cup [tags : TagSets, feedElementId : {"tag-feed"}, adSlotId : {"ad-slot"},
        visibleTagCount : CountInputs]
  \cup [tags : TagSets, feedElementId : {"tag-feed"}, adSlotId : {"no-such-slot"}]
  \cup [tags : TagSets, feedElementId : {"no-such-feed"}, adSlotId : {"ad-slot"}]
  \cup {[feedElementId |-> "tag-feed", adSlotId |-> "ad-slot"]}

\* if (!opts.feedElementId || !opts.adSlotId || !Array.isArray(opts.tags))
MissingOptions(opts) ==
  \/ "feedElementId" \notin DOMAIN opts
  \/ "adSlotId" \notin DOMAIN opts
  \/ "tags" \notin DOMAIN opts

\* config = { ... } built from opts
ConfigOf(opts) ==
  [visibleTagCount |->
     IF "visibleTagCount" \in DOMAIN opts
     THEN opts.visibleTagCount ELSE DefaultVisibleTagCount,
   tagSpacingPx |-> DefaultTagSpacingPx,
   tags |-> opts.tags]

init ==
  \E opts \in InitOptions :
    /\ hist.ops < MaxOps
    /\ UNCHANGED <<adSlot, adapter, pending>>
    /\ IF MissingOptions(opts)
       THEN \* throws before anything is assigned
            /\ UNCHANGED <<config, feedEl, adSlotEl, feedTags, active, scroll,
                           observer, runs>>
            /\ hist' = [Quiet(hist) EXCEPT !.init =
                          [outcome |-> "threw", count |-> 0,
                           reinit |-> DOMAIN observer # {}, kept |-> TRUE]]
       ELSE /\ config' = ConfigOf(opts)
            /\ feedEl' = getElementById(opts.feedElementId)
            /\ adSlotEl' = getElementById(opts.adSlotId)
            /\ IF feedEl' = "null" \/ adSlotEl' = "null"
               THEN \* throws after config, feedEl and adSlotEl are assigned
                    /\ UNCHANGED <<feedTags, active, scroll, observer, runs>>
                    /\ hist' = [Quiet(hist) EXCEPT !.ops = hist.ops + 1, !.init =
                                  [outcome |-> "threw",
                                   count |-> config'.visibleTagCount,
                                   reinit |-> DOMAIN observer # {},
                                   kept |-> /\ config' = config
                                            /\ feedEl' = feedEl
                                            /\ adSlotEl' = adSlotEl]]
               ELSE \* renderTags(): the feed is emptied, one element per tag
                    /\ feedTags' = Len(opts.tags)
                    /\ active' = {}
                    /\ scroll' = 0
                    \* setupVisibilityObserver(): the old observer is
                    \* disconnected, a fresh one observes every tag element
                    /\ observer' = [i \in 0..(Len(opts.tags) - 1) |-> "new"]
                    /\ runs' = [g \in DOMAIN runs |-> [runs[g] EXCEPT !.old = TRUE]]
                    /\ hist' = [Quiet(hist) EXCEPT !.init =
                                  [outcome |-> "started",
                                   count |-> config'.visibleTagCount,
                                   reinit |-> DOMAIN observer # {},
                                   kept |-> FALSE]]

\* Elements whose right edge is not beyond the feed's right edge, each passed
\* as an intersecting entry.
RightEdgeEntries(n, sl) ==
  LET els == SelectSeq(TagElements(n), LAMBDA i : Right(i, sl) <= FeedWidth)
  IN  [k \in 1..Len(els) |-> [idx |-> els[k], isIntersecting |-> TRUE]]

updateVisibleCount ==
  \E newCount \in CountInputs :
    /\ config # NoConfig
    /\ config' = [config EXCEPT !.visibleTagCount = newCount]
    /\ IF feedEl = "null"
       \* feedEl.querySelectorAll on null throws before the handler is called
       THEN /\ hist.ops < MaxOps
            /\ hist' = [Quiet(hist) EXCEPT !.ops = hist.ops + 1]
            /\ UNCHANGED <<active, adSlot, runs, pending>>
       ELSE handleVisibilityChange(RightEdgeEntries(feedTags, scroll), config',
                                   "update")
    /\ UNCHANGED <<feedEl, adSlotEl, feedTags, scroll, observer, adapter>>

\* Values the caller passes as a spacing.
SpacingInputs == {20}

\* Mutant: a spacing update that also recomputes the selection.
updateSpacing_recompute ==
  \E px \in SpacingInputs :
    /\ config # NoConfig
    /\ feedEl # "null"
    /\ config' = [config EXCEPT !.tagSpacingPx = px]
    /\ handleVisibilityChange(RightEdgeEntries(feedTags, scroll), config', "update")
    /\ UNCHANGED <<feedEl, adSlotEl, feedTags, scroll, observer, adapter>>

updateSpacing ==
  \E px \in SpacingInputs :
    /\ hist.ops < MaxOps
    /\ config # NoConfig
    /\ config' = [config EXCEPT !.tagSpacingPx = px]
    \* feedEl.style.setProperty('--tag-spacing', ...): no state of the model
    /\ hist' = [Quiet(hist) EXCEPT !.ops = hist.ops + 1]
    /\ UNCHANGED <<feedEl, adSlotEl, feedTags, active, scroll, observer, adSlot,
                   adapter, runs, pending>>

\* ------------------------------------------------------------ specification
Init ==
  /\ config = NoConfig
  /\ feedEl = "null"
  /\ adSlotEl = "null"
  /\ feedTags = 0
  /\ active = {}
  /\ scroll = 0
  /\ observer = << >>
  /\ adSlot = ""
  /\ adapter \in Adapters
  /\ runs = << >>
  /\ pending = << >>
  /\ hist = [ops |-> 0,          \* operations counted against MaxOps so far
             gen |-> 0,          \* handleVisibilityChange calls so far; a run
                                 \* bears the number of the call that started it
             last |-> 0,         \* the run started last
             sinkGen |-> 0,      \* the run that last wrote adSlot
             init |-> NoInit,    \* this step's init call, if any
             done |-> NoRun,     \* the run this step completed, if any
             call |-> NoCall]    \* this step's handleVisibilityChange, if any

Next ==
  \/ init
  \/ Scroll
  \/ IntersectionCallback
  \/ updateVisibleCount
  \/ updateSpacing
  \/ ProviderSettles

Spec == Init /\ [][Next]_vars

\* The awaited lookups settle: the placeholder's timer fires, a real provider's
\* request resolves or rejects.
FairSpec == Spec /\ WF_vars(ProviderSettles)

\* ------------------------------------------------------------------ claims
\* A lookup result that is non-null with non-empty markup.
Matches(res) == res.kind = "ad" /\ res.html # ""

\* The providers a run has called, in call order.
Calls(log) == [k \in DOMAIN log |-> log[k].provider]

\* The positions of providerList whose lookup, for this pool, resolves to a match.
MatchingPositions(keywords) ==
  {k \in DOMAIN providerList :
     Matches(Settlement(adapter, providerList[k], keywords))}

\* A run with a non-empty pool completed in this step.
ResolvedNow ==
  /\ hist.done.kind \in {"rendered", "no-match", "rejected"}
  /\ hist.done.keywords # << >>

\* The tags the tracker last reported visible, by position, and whether the
\* tracker has reported the present layout in full.
Members == SelectSeq(TagElements(Cardinality(DOMAIN observer)),
                     LAMBDA i : observer[i] = "in")
TrackerCurrent == ChangedEntries(observer, scroll) = << >>
FirstOf(s, n) == SubSeq(s, 1, Min(n, Len(s)))

\* C1: when a run started under the current configuration writes the ad slot
\* and leaves no run in flight, it is the run started last; a superseded run's
\* late result does not replace the latest run's.
C1_LatestSelectionWins ==
  (/\ DOMAIN runs = {}
   /\ hist.done.kind \in {"rendered", "no-match", "empty-pool"}
   /\ ~hist.done.old
   /\ config.visibleTagCount >= 1) =>
    hist.done.gen = hist.last

\* C2: a run whose pool is non-empty and for which some provider's lookup
\* resolves to a match renders the reply of the first such provider of the
\* list, and calls no provider positioned after it.
C2_FirstMatchWins ==
  LET d == hist.done
      m == MatchingPositions(d.keywords)
  IN  (ResolvedNow /\ m # {}) =>
        LET first == CHOOSE k \in m : \A j \in m : k <= j
        IN  /\ d.kind = "rendered"
            /\ d.provider = providerList[first]
            /\ d.html = Settlement(adapter, providerList[first], d.keywords).html
            /\ Matches(d.log[Len(d.log)].res)
            /\ adSlot = d.html
            /\ Calls(d.log) = SubSeq(providerList, 1, first)

C2_Witness ==
  /\ hist.done.kind = "rendered"
  /\ hist.done.provider = "facebook"
  /\ Cardinality(MatchingPositions(hist.done.keywords)) = 2

\* C3: a run calls the providers in list order, one at a time: it awaits
\* exactly one call, that of the provider following those already settled.
C3_InOrderSequential ==
  /\ \A g \in DOMAIN runs :
       LET r == runs[g]
           mine == SelectSeq(pending, LAMBDA c : c.run = g)
       IN  /\ Len(mine) = 1
           /\ Len(r.log) < Len(providerList)
           /\ mine[1].provider = providerList[Len(r.log) + 1]
           /\ Calls(r.log) = SubSeq(providerList, 1, Len(r.log))
  /\ \A k \in DOMAIN pending : pending[k].run \in DOMAIN runs
  /\ Calls(hist.done.log) = SubSeq(providerList, 1, Len(hist.done.log))

C3_Witness ==
  \E g, o \in DOMAIN runs :
    /\ g # o
    /\ Len(runs[g].log) = 2
    /\ \E k \in DOMAIN pending : pending[k] = [run |-> g, provider |-> "google"]

\* C4: a run started with an empty pool writes the no-keywords message at once
\* and calls no provider; only runs with a non-empty pool ever await a lookup.
C4_EmptyPoolShortCircuit ==
  /\ \A g \in DOMAIN runs : runs[g].keywords # << >>
  /\ \A k \in DOMAIN pending :
       pending[k].run \in DOMAIN runs => runs[pending[k].run].keywords # << >>
  /\ (hist.done.kind # "none" /\ hist.done.keywords = << >>) =>
       /\ hist.done.kind = "empty-pool"
       /\ hist.done.log = << >>
       /\ adSlot = NoKeywordsMsg
  /\ (/\ hist.call.op # "none"
      /\ ~MissingTag(hist.call.selection, config.tags)
      /\ keywordPool(hist.call.selection, config.tags) = << >>) =>
       /\ hist.done.kind = "empty-pool"
       /\ hist.done.gen = hist.gen
       /\ hist.gen \notin DOMAIN runs

C4_Witness ==
  /\ hist.done.kind = "empty-pool"
  /\ hist.call.op = "observer"
  /\ hist.call.selection # << >>
  /\ pending # << >>

\* C5: a lookup that raises does not fail the run: the run goes on to the next
\* provider as after a decline, and a later match is still rendered; a run
\* whose last provider raises ends with the no-match message.
C5_FailureIsolated ==
  /\ \A g \in DOMAIN runs :
       \A k \in DOMAIN runs[g].log :
         runs[g].log[k].res = Thrown =>
           \E j \in DOMAIN pending :
             pending[j] = [run |-> g, provider |-> providerList[Len(runs[g].log) + 1]]
  /\ LET d == hist.done
     IN  \A k \in DOMAIN d.log :
           d.log[k].res = Thrown =>
             /\ d.kind \in {"rendered", "no-match"}
             /\ k < Len(providerList) =>
                  /\ Len(d.log) > k
                  /\ d.log[k + 1].provider = providerList[k + 1]
             /\ d.kind = "rendered" =>
                  /\ Matches(d.log[Len(d.log)].res)
                  /\ adSlot = d.log[Len(d.log)].res.html
             /\ d.kind = "no-match" => adSlot = NoSuitableMsg

C5_Witness ==
  /\ hist.done.kind = "rendered"
  /\ hist.done.provider = "facebook"
  /\ hist.done.log[1].res = Thrown

\* C6: a run with a non-empty pool ends with the no-match message exactly when
\* it has called every provider of the list and none of the lookups matched.
C6_NoMatchIffExhausted ==
  LET d == hist.done
  IN  ResolvedNow =>
        /\ (d.kind = "no-match") <=>
             (/\ Calls(d.log) = providerList
              /\ \A k \in DOMAIN d.log : ~Matches(d.log[k].res))
        /\ d.kind = "no-match" <=> MatchingPositions(d.keywords) = {}
        /\ d.kind = "no-match" => adSlot = NoSuitableMsg

C6_Witness ==
  /\ hist.done.kind = "no-match"
  /\ hist.done.log[2].res = Ad("")
  /\ hist.done.log[3].res = Thrown

\* C7: after a visibility callback the selection is the first visibleCount
\* tags, by position, of the tags the tracker last reported visible.
C7_SelectionIsMembershipPrefix ==
  (hist.call.op = "observer" /\ config.visibleTagCount >= 1) =>
    hist.call.selection = FirstOf(Members, config.visibleTagCount)

\* C8: every computed selection is strictly ascending in tag position and no
\* longer than the current visibleCount.
C8_SortedAndCapped ==
  hist.call.op # "none" =>
    /\ \A j, k \in DOMAIN hist.call.selection :
         j < k => hist.call.selection[j] < hist.call.selection[k]
    /\ Len(hist.call.selection) <= config.visibleTagCount

\* C9: when handleVisibilityChange receives the very entries it received in the
\* step before, under the same visibleCount, the selection and the highlighted
\* tags are what the first delivery left.
C9_Idempotent ==
  hist.call.again =>
    /\ hist.call.selection = hist.call.before.selection
    /\ active = hist.call.before.active

C9_Witness ==
  /\ hist.call.again
  /\ hist.call.before.op = "observer"
  /\ config.visibleTagCount >= 1
  /\ Len(hist.call.selection) >= 1

\* C10: updateVisibleCount(n), n positive, recomputes at once over the tags the
\* tracker reports visible and selects the first min(n, |membership|) of them.
C10_UpdateUsesMembership ==
  (hist.call.op = "update" /\ config.visibleTagCount >= 1 /\ TrackerCurrent) =>
    hist.call.selection = FirstOf(Members, config.visibleTagCount)

\* C11: updateVisibleCount(n) with a non-positive n is refused: it triggers no
\* recomputation, so no recomputation made by updateVisibleCount runs under a
\* visibleCount below 1.
C11_RejectsNonPositiveCount ==
  hist.call.op = "update" =>
    /\ hist.call.count >= 1
    /\ config.visibleTagCount >= 1

\* C12: while a tracker is installed and visibleCount is positive, every call
\* of handleVisibilityChange starts exactly one run, numbered after the runs
\* started before it, and every run that completes has written exactly one
\* outcome to the ad slot.
C12_OneRunOneOutcome ==
  (DOMAIN observer # {} /\ config.visibleTagCount >= 1) =>
    /\ hist.call.op # "none" =>
         /\ hist.call.run = hist.gen
         /\ hist.call.run \in DOMAIN runs \/ hist.done.gen = hist.call.run
    /\ hist.done.kind # "none" =>
         /\ hist.done.kind \in {"rendered", "no-match", "empty-pool"}
         /\ adSlot = hist.done.html
         /\ hist.sinkGen = hist.done.gen
         /\ hist.done.gen \notin DOMAIN runs

\* The number of keywords of the first n selected tags.
RECURSIVE KeywordsBefore(_, _, _)
KeywordsBefore(sel, tags, n) ==
  IF n = 0 THEN 0
  ELSE KeywordsBefore(sel, tags, n - 1) + Len(tags[sel[n] + 1])

\* The pool handed to the run that this step's handler call started.
StartedPool ==
  IF hist.call.run \in DOMAIN runs
  THEN runs[hist.call.run].keywords
  ELSE hist.done.keywords

\* C13: the pool handed to a run holds, for each selected tag in selection
\* order, that tag's keywords in their own order, duplicates included, and
\* nothing else; it is empty exactly when no selected tag has a keyword.
C13_PoolIsConcatenation ==
  hist.call.run # 0 =>
    LET sel == hist.call.selection
        tags == config.tags
    IN  /\ Len(StartedPool) = KeywordsBefore(sel, tags, Len(sel))
        /\ \A n \in DOMAIN sel :
             \A k \in DOMAIN tags[sel[n] + 1] :
               StartedPool[KeywordsBefore(sel, tags, n - 1) + k] =
                 tags[sel[n] + 1][k]
        /\ (StartedPool = << >>) <=>
             (\A n \in DOMAIN sel : tags[sel[n] + 1] = << >>)

C13_Witness ==
  /\ hist.call.run \in DOMAIN runs
  /\ Len(hist.call.selection) = 3
  /\ config.tags[hist.call.selection[2] + 1] = << >>
  /\ \E j, k \in DOMAIN StartedPool : j < k /\ StartedPool[j] = StartedPool[k]

\* C14: an init call whose visibleCount is not positive, or whose feed or ad
\* slot cannot be resolved, does not start the pipeline: init starts it only
\* with a positive visibleCount, and while no tracker is installed no run begins.
C14_InvalidInitDoesNotStart ==
  /\ hist.init.outcome = "started" => hist.init.count >= 1
  /\ DOMAIN observer = {} => hist.gen = 0

\* C15: every index of a computed selection is the index of a tag of the
\* current configuration's tag list.
C15_SelectionTagsExist ==
  hist.call.op # "none" => ~MissingTag(hist.call.selection, config.tags)

\* C16: a step that changes the spacing value without being an init call
\* changes nothing else: visibleCount, the tag list, the tracker's membership,
\* the highlighted tags and the ad slot stay as they were, no recomputation is
\* made and no run is started or completed.
C16_SpacingOnly ==
  [][(/\ hist'.init.outcome = "none"
      /\ config # NoConfig
      /\ config'.tagSpacingPx # config.tagSpacingPx) =>
       /\ config' = [config EXCEPT !.tagSpacingPx = config'.tagSpacingPx]
       /\ UNCHANGED <<feedEl, adSlotEl, feedTags, active, scroll, observer,
                      adSlot, runs, pending>>
       /\ hist'.gen = hist.gen
       /\ hist'.call = NoCall
       /\ hist'.done = NoRun]_vars

C16_Witness ==
  /\ config # NoConfig
  /\ config.tagSpacingPx # DefaultTagSpacingPx
  /\ config.visibleTagCount >= 1
  /\ active # {}
  /\ DOMAIN runs # {}

\* C17: when a run started under the current configuration, with a positive
\* visibleCount, writes the ad slot and leaves no run in flight, the highlighted
\* tags are the tags that were selected when that run was started.
C17_HighlightMatchesAd ==
  (/\ DOMAIN runs = {}
   /\ hist.done.kind \in {"rendered", "no-match", "empty-pool"}
   /\ ~hist.done.old
   /\ config.visibleTagCount >= 1) =>
    active = hist.done.sel

\* C18: a run awaits one lookup at a time and calls each provider at most
\* once; when the last lookup it awaits has settled the run is complete, and a
\* run started on an initialized pipeline completes with an outcome delivered:
\* rendered, empty-pool or no-match.
C18_RunDeliversOutcome ==
  /\ \A g \in DOMAIN runs :
       /\ Len(runs[g].log) < Len(providerList)
       /\ Cardinality({k \in DOMAIN pending : pending[k].run = g}) = 1
       /\ \A j, k \in DOMAIN runs[g].log :
            j # k => runs[g].log[j].provider # runs[g].log[k].provider
  /\ Len(hist.done.log) <= Len(providerList)
  /\ (DOMAIN observer # {} /\ config.visibleTagCount >= 1) =>
       hist.done.kind # "rejected"

\* Under FairSpec every started run completes, with or without an outcome.
EveryRunCompletes ==
  \A g \in 1..MaxOps : (g \in DOMAIN runs) ~> (g \notin DOMAIN runs)

\* C19: an init call that throws on an initialized pipeline leaves config,
\* feedEl and adSlotEl as they were before the call.
C19_ThrowingInitKeepsState ==
  (hist.init.outcome = "threw" /\ hist.init.reinit) => hist.init.kept

\* C20: a run that was in flight when init succeeded again never writes the ad
\* slot afterwards.
C20_StaleRunNeverWrites ==
  hist.done.kind \in {"rendered", "no-match"} => ~hist.done.old

====
